---- MODULE Spec2Model ----
(***************************************************************************)
(* State-machine model of the three TinyTX3 RHT03 sensor sketches:         *)
(*   "basic" : tinytx_rht03_basic/tinytx_rht03_sensor.ino                  *)
(*   "green" : specific_sensors/green_house_sensor/green_house_sensor.ino  *)
(*   "door"  : the contact-sensing sketch (unnamed/part_001)               *)
(* One behaviour runs one sketch; the sketch is chosen in Init.            *)
(*                                                                         *)
(* The main program is modelled statement by statement (pc names the next  *)
(* statement); the pin-change ISR of the door sketch may run between any   *)
(* two statements.  The sensor driver (dht), the radio driver (rf12),       *)
(* the ADC and Sleepy::loseSomeTime are library code outside the           *)
(* repository: their results are nondeterministic inputs.                  *)
(*                                                                         *)
(* gotPCI is declared "static int gotPCI" (part_001 line 43): it is not    *)
(* volatile although the ISR writes it behind the main program's back.     *)
(* The compiler may therefore keep its value in a register across          *)
(* statements of the main program that do not write it.  A read of gotPCI  *)
(* by the main program yields either the value in memory or the value the  *)
(* main program last wrote or read (held); which one depends on the build. *)
(* A store by the main program is taken to reach memory at its statement.  *)
(***************************************************************************)
EXTENDS Integers, FiniteSets, Sequences

VARIABLES
  variant,      \* which sketch runs
  pc,           \* next statement of the main program
  site,         \* call site of the running / last acquire+transmit cycle
  gotPCI,       \* static int gotPCI (door sketch), the value in memory
  held,         \* the value of gotPCI the main program last wrote or read
  rail,         \* RHT03_POWER_PIN is HIGH
  pinHigh,      \* sensor data pins left pulled high by the dht library
  adc,          \* ADC enabled (ADEN set, PRADC clear)
  radio,        \* RFM12B power state: "sleep" or "awake"
  DHT,          \* dht DHT: <<temperature, humidity>> in tenths, or Invalid
  tinytx,       \* Payload tinytx
  sensorValue,  \* green readVcc: int sensorValue
  adcI,         \* green readVcc: loop counter i
  vcc,          \* value returned by readVcc (green: the averaged raw value)
  i,            \* rfwrite: byte i
  acked,        \* rfwrite: byte acked
  rxFrame,      \* rf12_crc / rf12_hdr of the driver's frame buffer, while the
                \* radio is awake (no statement reads it once the radio sleeps,
                \* and the next rf12_sendStart overwrites it)
  sleepI,       \* loop counter i of the duty-cycle sleep loop
  \* ---- environment and observation (history) variables ----
  dead,         \* the sensor driver never reports DHTLIB_OK
  samples,      \* green: the raw readings summed by the running readVcc call
  rawIn,        \* basic, door: the raw ADC reading of the last conversion (0: none)
  fails,        \* failed polls in the current acquisition loop
  polls,        \* polls in the current acquisition loop
  attempts,     \* rf12_sendStart calls in the current / last rfwrite call
  ackAt,        \* attempt in whose window the first valid ack arrived (0: none)
  backoffs,     \* retry backoff waits in the current / last rfwrite call
  sendState,    \* outcome of the last rfwrite call: "idle" (none yet), "running",
                \* "delivered", "dropped" or "sent" (no ack asked); kept until
                \* the next call
  sentRec,      \* payload of the first transmission of the current send
  txSame,       \* every transmission of the current send carried sentRec
  written,      \* record fields assigned since the cycle began
  evtChunk,     \* 1: edge raised in the chunk in progress; 2: in a chunk that ended
  evtCycle,     \* 1: edge raised in the running cycle; 2: in a cycle that ended
  edges,        \* edges raised since the flag was last cleared (saturating)
  consumed,     \* edges that were pending at the last clear of the flag (kept
                \* from the clear to the first statement of the cycle it starts)
  cyc           \* cycles begun since the flag was last cleared

progVars == <<variant, pc, site, gotPCI, held, rail, pinHigh, adc, radio, DHT, tinytx,
              sensorValue, adcI, vcc, i, acked, rxFrame, sleepI>>
histVars == <<dead, rawIn, samples, fails, polls, attempts, ackAt, backoffs, sendState, sentRec,
              txSame, written, evtChunk, evtCycle, edges, consumed, cyc>>
vars == <<progVars, histVars>>

powerVars  == <<rail, pinHigh, adc, radio>>
sensorVars == <<DHT, fails, polls>>
adcVars    == <<sensorValue, adcI, vcc, rawIn, samples>>
rfVars     == <<i, acked, rxFrame, attempts, ackAt, backoffs, sendState, sentRec, txSame>>
recVars    == <<tinytx, written>>
irqVars    == <<gotPCI, held, evtChunk, evtCycle, edges, consumed, cyc>>
seqVars    == <<site, sleepI>>
fixedVars  == <<variant, dead>>

(***************************************************************************)
(* Bounds of the model.                                                    *)
(***************************************************************************)
MaxFails == 2      \* failed polls counted per acquisition loop
MaxEdges == 2      \* edges counted between two clears of the flag

(***************************************************************************)
(* Build-time configuration.                                               *)
(***************************************************************************)
Variants == {"basic", "door", "green"}

RETRY_LIMIT == 5

RF12_HDR_CTL == 128
RF12_HDR_DST == 64
RF12_HDR_ACK == 32

DHTLIB_OK == 0

\* (variant of UseAck: every sketch is built with USE_ACK)
UseAckAll(v) == TRUE

\* #define USE_ACK  (commented out in the greenhouse sketch)
UseAck(v) == v # "green"

myNodeID(v) == IF v = "green" THEN 10 ELSE 11

SleepChunks(v) == IF v = "green" THEN 30 ELSE 5

Min(a, b) == IF a < b THEN a ELSE b

\* conversion to the 16-bit int of the ATtiny84
ToInt16(x) == ((x + 32768) % 65536) - 32768

\* C integer division (truncation toward zero)
TruncDiv(a, b) == IF a >= 0 THEN a \div b ELSE -((-a) \div b)

(***************************************************************************)
(* Payload                                                                 *)
(***************************************************************************)
Fields == {"temp", "humidity", "supplyV", "supplyVPcnt", "door",
           "outsideTemp", "outsideHum"}

Payload(v) ==
  CASE v = "basic" -> {"temp", "humidity", "supplyV"}
    [] v = "green" -> {"temp", "humidity", "supplyV", "supplyVPcnt"}
    [] v = "door"  -> {"temp", "humidity", "supplyV", "door",
                       "outsideTemp", "outsideHum"}

ZeroRec == [f \in Fields |-> 0]

\* the part of tinytx that is the sketch's struct, i.e. what rf12_sendStart sends
Frame(v, rec) == [f \in Payload(v) |-> rec[f]]

NoRec == <<>>

(***************************************************************************)
(* Inputs                                                                  *)
(***************************************************************************)
Invalid == <<-9990, -9990>>           \* DHTLIB_INVALID_VALUE after a failed read
Readings == {<<215, 480>>, <<-53, 999>>}
PollResults == {0, -1, -2}            \* DHTLIB_OK, checksum error, timeout
RawSamples == {30, 352}               \* raw 10-bit ADC readings
Levels == {0, 1}                      \* digitalRead(DOOR_PIN): LOW, HIGH

NoFrame == <<-1, -1>>
AckHdr(v) == RF12_HDR_DST + RF12_HDR_CTL + myNodeID(v)
ExpectedAck(v) == <<0, AckHdr(v)>>
RxFrames(v) == { ExpectedAck(v),                          \* the acknowledgement
                 <<1, AckHdr(v)>>,                        \* bad CRC
                 <<0, RF12_HDR_DST + RF12_HDR_CTL + 12>>, \* ack for another node
                 <<0, RF12_HDR_CTL + myNodeID(v)>> }      \* no destination bit
\* rf12_sendStart fills the frame buffer with the outgoing header and its CRC
TxFrame(v) == <<1, (IF UseAck(v) THEN RF12_HDR_ACK ELSE 0) + myNodeID(v)>>

(***************************************************************************)
(* Pure code: conditions and computations of the sketches.                 *)
(***************************************************************************)
\* tinytx.temp = DHT.temperature * 100 (a reading in tenths, stored in an int)
Scale100(x) == ToInt16(x * 10)

\* (variant of PollAgain: the loop gives up after the first poll)
PollAgainNever(res) == FALSE

\* while (DHT.read22(pin) != DHTLIB_OK)
PollAgain(res) == res # DHTLIB_OK

\* readVcc of basic and door: result = 1126400L / result (long arithmetic)
VccFromRaw(raw) == 1126400 \div raw

\* (variant of Average: the mean rounded to the nearest integer)
AverageRounded(sum) == TruncDiv(2 * sum + 5, 10)

\* readVcc of green: sensorValue /= 5
Average(sum) == TruncDiv(sum, 5)

\* green: static_cast<int>(Vbat * 1000) with Vbat = ((R1+R2)/R2 * VREF / 1023) * avg,
\* i.e. avg * 8800 / 3069 millivolts, truncated
SupplyMilli(avg) == TruncDiv(avg * 8800, 3069)

\* green: static_cast<int>(((Vbat - VMIN) / (VMAX - VMIN)) * 10000.)
\*        = ((avg * 8800 / 3069) - 500) * 4, truncated toward zero
SupplyPcnt(avg) == TruncDiv(35200 * avg - 6138000, 3069)

\* (variant of AdcAfterRead: readVcc returns with the ADC still enabled)
AdcAfterReadKept(v) == TRUE

\* readVcc: ADCSRA &= ~ bit(ADEN); bitSet(PRR, PRADC) -- the ADC enable after it
AdcAfterRead(v) == FALSE

\* (variant of RfLoopCond: i < RETRY_LIMIT)
RfLoopCondLess(n) == n < RETRY_LIMIT

\* for (byte i = 0; i <= RETRY_LIMIT; ++i)
RfLoopCond(n) == n <= RETRY_LIMIT

\* (variant of IsAck: the CRC of the received frame is not tested)
IsAckAnyCrc(v, f) == f # NoFrame /\ f[2] = AckHdr(v)

\* waitForAck: rf12_recvDone() && rf12_crc == 0 && rf12_hdr == (DST | CTL | myNodeID)
IsAck(v, f) == f # NoFrame /\ f[1] = 0 /\ f[2] = AckHdr(v)

\* (variant of RfSleepState: the radio is put to sleep only when acknowledged)
RfSleepStateOnAck(a) == IF a # 0 THEN "sleep" ELSE "awake"

\* rf12_sleep(0) after waitForAck, whatever its result
RfSleepState(a) == "sleep"

\* (variant of AckedReturn: the result of waitForAck is ignored)
AckedReturnNever(a) == FALSE

\* if (acked) { return; }
AckedReturn(a) == a # 0

\* i < 5 && !gotPCI  (door);  i < 5 (basic);  i < 30 (green)
SleepCond(v, n, g) == n < SleepChunks(v) /\ (v = "door" => g = 0)

\* (variant of ISRSet: the handler counts the edges)
ISRCount(g) == g + 1

\* ISR(PCINT0_vect) { gotPCI = true; }
ISRSet(g) == 1

\* (variant of LoopIfCond: the branch is taken when the flag is clear)
LoopIfCondNot(g) == g = 0

\* if (gotPCI) at the top of the door sketch's loop()
LoopIfCond(g) == g # 0

\* (variant of SendReturn: an undelivered record is sent again)
SendReturnResend(s, a) ==
  IF a = 0 THEN "rf_entry" ELSE IF s = "setup" THEN "setup_sei" ELSE "slp_test"

\* Where control goes when rfwrite returns (and, in the door sketch, handleInterrupt
\* with it): the statement after the call, whatever the outcome a of the send.
SendReturn(s, a) == IF s = "setup" THEN "setup_sei" ELSE "slp_test"

\* (variant of StoreFields: tinytx.door is only assigned when the pin is HIGH,
\* seen here at a LOW pin, and the percentage is not stored)
StoreFieldsPartial(v, p) ==
  CASE p = "store1"    -> {"temp", "humidity"}
    [] p = "store2"    -> {"outsideTemp", "outsideHum"}
    [] p = "store_v"   -> {"supplyV"}
    [] OTHER           -> {}

\* record fields assigned by the statement(s) at p
StoreFields(v, p) ==
  CASE p = "store1"    -> {"temp", "humidity"}
    [] p = "store2"    -> {"outsideTemp", "outsideHum"}
    [] p = "door_read" -> {"door"}
    [] p = "store_v"   -> IF v = "green" THEN {"supplyV", "supplyVPcnt"} ELSE {"supplyV"}
    [] OTHER           -> {}

\* tinytx after the statement at p assigned the values new to its fields
Assign(v, p, rec, new) ==
  [f \in Fields |-> IF f \in StoreFields(v, p) THEN new[f] ELSE rec[f]]

CyclePcs == {"rail_on", "warmup", "poll1", "wait1", "store1", "poll2", "wait2",
             "store2", "door_read", "rail_off", "pin_low", "adc_on", "adc_conv",
             "adc_sample", "adc_off", "adc_calc", "store_v",
             "rf_entry", "rf_loop", "rf_wake", "rf_cansend", "rf_send",
             "rf_sendwait", "rf_ack", "rf_sleep", "rf_chk", "rf_backoff"}

\* (variant of ISRResume: an edge raised during a cycle abandons the cycle)
ISRResumeAbort(p) == IF p \in CyclePcs THEN "slp_test" ELSE p

\* the statement at which the main program continues when the ISR returns:
\* the handler only stores to gotPCI, so it is the interrupted statement p
ISRResume(p) == p

(***************************************************************************)
(* Init: the state when setup() has initialised the hardware: ADC off,     *)
(* radio initialised and put to sleep, sensor rail low, gotPCI false, pin  *)
(* change interrupt enabled.  The door sketch is about to call             *)
(* handleInterrupt() from setup (line 160); the other two enter loop().    *)
(***************************************************************************)
Init ==
  /\ variant \in Variants
  /\ dead \in BOOLEAN
  /\ pc = "rail_on"
  /\ site = IF variant = "door" THEN "setup" ELSE "loop"
  /\ gotPCI = 0 /\ held = 0
  /\ rail = FALSE /\ pinHigh = {} /\ adc = FALSE /\ radio = "sleep"
  /\ DHT = Invalid
  /\ tinytx = ZeroRec
  /\ sensorValue = 0 /\ adcI = 0 /\ vcc = 0 /\ rawIn = 0 /\ samples = <<>>
  /\ i = 0 /\ acked = 0 /\ rxFrame = NoFrame
  /\ sleepI = 0
  /\ fails = 0 /\ polls = 0
  /\ attempts = 0 /\ ackAt = 0 /\ backoffs = 0
  /\ sendState = "idle" /\ sentRec = NoRec /\ txSame = TRUE
  /\ written = {}
  /\ evtChunk = 0 /\ evtCycle = 0 /\ edges = 0 /\ consumed = 0
  /\ cyc = IF variant = "door" THEN 1 ELSE 0

(***************************************************************************)
(* Acquisition: loop() of basic and green, handleInterrupt() of door.      *)
(***************************************************************************)
\* digitalWrite(RHT03_POWER_PIN, HIGH)
RailOn ==
  /\ pc = "rail_on"
  /\ rail' = TRUE
  /\ pc' = "warmup"
  /\ consumed' = 0
  /\ UNCHANGED <<pinHigh, adc, radio, sensorVars, adcVars, rfVars, recVars,
                 gotPCI, held, evtChunk, evtCycle, edges, cyc, seqVars, fixedVars>>

\* Sleepy::loseSomeTime(2000)
Warmup ==
  /\ pc = "warmup"
  /\ pc' = "poll1"
  /\ fails' = 0 /\ polls' = 0
  /\ UNCHANGED <<DHT, powerVars, adcVars, rfVars, recVars, irqVars, seqVars, fixedVars>>

\* one evaluation of  DHT.read22(pin) != DHTLIB_OK
Poll ==
  /\ pc \in {"poll1", "poll2"}
  /\ \E res \in PollResults :
       /\ IF res = DHTLIB_OK THEN ~dead ELSE (dead \/ fails < MaxFails)
       /\ IF res = DHTLIB_OK
            THEN /\ \E r \in Readings : DHT' = r
                 /\ fails' = fails
            ELSE /\ DHT' = Invalid
                 /\ fails' = Min(fails + 1, MaxFails)
       /\ polls' = Min(polls + 1, MaxFails + 1)
       /\ pc' = IF PollAgain(res)
                  THEN (IF pc = "poll1" THEN "wait1" ELSE "wait2")
                  ELSE (IF pc = "poll1" THEN "store1" ELSE "store2")
  /\ pinHigh' = pinHigh \cup {IF pc = "poll1" THEN "p1" ELSE "p2"}
  /\ UNCHANGED <<rail, adc, radio, adcVars, rfVars, recVars, irqVars, seqVars, fixedVars>>

\* Sleepy::loseSomeTime(500) / (100) between two polls
PollWait ==
  /\ pc \in {"wait1", "wait2"}
  /\ pc' = IF pc = "wait1" THEN "poll1" ELSE "poll2"
  /\ UNCHANGED <<powerVars, sensorVars, adcVars, rfVars, recVars, irqVars,
                 seqVars, fixedVars>>

\* tinytx.temp = DHT.temperature * 100; tinytx.humidity = DHT.humidity * 100;
\* door, second sensor: tinytx.outsideTemp / tinytx.outsideHum
Store ==
  /\ pc \in {"store1", "store2"}
  /\ LET new == [f \in Fields |->
                   IF f \in {"temp", "outsideTemp"} THEN Scale100(DHT[1])
                                                    ELSE Scale100(DHT[2])]
     IN tinytx' = Assign(variant, pc, tinytx, new)
  /\ written' = written \cup StoreFields(variant, pc)
  /\ pc' = IF pc = "store1"
             THEN (IF variant = "door" THEN "poll2" ELSE "rail_off")
             ELSE "door_read"
  /\ fails' = 0 /\ polls' = 0
  /\ UNCHANGED <<DHT, powerVars, adcVars, rfVars, irqVars, seqVars, fixedVars>>

\* if (digitalRead(DOOR_PIN) == HIGH) tinytx.door = 1; else tinytx.door = 0;
DoorRead ==
  /\ pc = "door_read"
  /\ \E level \in Levels :
       tinytx' = Assign(variant, pc, tinytx, [f \in Fields |-> level])
  /\ written' = written \cup StoreFields(variant, pc)
  /\ pc' = "rail_off"
  /\ UNCHANGED <<powerVars, sensorVars, adcVars, rfVars, irqVars, seqVars, fixedVars>>

\* digitalWrite(RHT03_POWER_PIN, LOW)
RailOff ==
  /\ pc = "rail_off"
  /\ rail' = FALSE
  /\ pc' = IF variant = "basic" THEN "adc_on" ELSE "pin_low"
  /\ UNCHANGED <<pinHigh, adc, radio, sensorVars, adcVars, rfVars, recVars,
                 irqVars, seqVars, fixedVars>>

\* digitalWrite(RHT03_PIN, LOW)  (green);
\* digitalWrite(RHT03_1_PIN, LOW); digitalWrite(RHT03_2_PIN, LOW)  (door)
PinsLow ==
  /\ pc = "pin_low"
  /\ pinHigh' = {}
  /\ pc' = "adc_on"
  /\ UNCHANGED <<rail, adc, radio, sensorVars, adcVars, rfVars, recVars,
                 irqVars, seqVars, fixedVars>>

(***************************************************************************)
(* readVcc                                                                 *)
(***************************************************************************)
\* bitClear(PRR, PRADC); ADCSRA |= bit(ADEN);   green: then loseSomeTime(100)
AdcOn ==
  /\ pc = "adc_on"
  /\ adc' = TRUE
  /\ sensorValue' = 0 /\ adcI' = 0 /\ vcc' = 0
  /\ pc' = IF variant = "green" THEN "adc_sample" ELSE "adc_conv"
  /\ UNCHANGED <<rawIn, samples, rail, pinHigh, radio, sensorVars, rfVars, recVars, irqVars,
                 seqVars, fixedVars>>

\* basic, door: one conversion that reads a raw value of the set S;
\* result = 1126400L / result
AdcConvertFrom(S) ==
  /\ pc = "adc_conv"
  /\ \E r \in S : rawIn' = r /\ vcc' = VccFromRaw(r)
  /\ pc' = "adc_off"
  /\ UNCHANGED <<sensorValue, adcI, samples, powerVars, sensorVars, rfVars, recVars,
                 irqVars, seqVars, fixedVars>>

AdcConvert == AdcConvertFrom(RawSamples)

\* green: for (int i = 0; i < 5; i++) { sensorValue += analogRead(BATT_PIN);
\*                                      Sleepy::loseSomeTime(20); }
AdcSampleFrom(S) ==
  /\ pc = "adc_sample"
  /\ IF adcI < 5
       THEN /\ \E r \in S : /\ sensorValue' = ToInt16(sensorValue + r)
                             /\ samples' = Append(samples, r)
            /\ adcI' = adcI + 1
            /\ pc' = "adc_sample"
       ELSE /\ UNCHANGED <<sensorValue, adcI, samples>>
            /\ pc' = "adc_off"
  /\ UNCHANGED <<vcc, rawIn, powerVars, sensorVars, rfVars, recVars, irqVars, seqVars,
                 fixedVars>>

AdcSample == AdcSampleFrom(RawSamples)

\* ADCSRA &= ~bit(ADEN); bitSet(PRR, PRADC);   basic, door: return result
AdcOff ==
  /\ pc = "adc_off"
  /\ adc' = AdcAfterRead(variant)
  /\ pc' = IF variant = "green" THEN "adc_calc" ELSE "store_v"
  /\ UNCHANGED <<rail, pinHigh, radio, sensorVars, adcVars, rfVars, recVars,
                 irqVars, seqVars, fixedVars>>

\* green: sensorValue /= 5; Vbat = (Vmax / 1023) * sensorValue; return Vbat
AdcCalc ==
  /\ pc = "adc_calc"
  /\ vcc' = Average(sensorValue)
  /\ sensorValue' = 0 /\ adcI' = 0
  /\ pc' = "store_v"
  /\ UNCHANGED <<rawIn, samples, powerVars, sensorVars, rfVars, recVars, irqVars, seqVars, fixedVars>>

\* tinytx.supplyV = readVcc();   green: supplyV and supplyVPcnt from Vbat
StoreV ==
  /\ pc = "store_v"
  /\ LET new == [f \in Fields |->
                   IF variant = "green"
                     THEN (IF f = "supplyV" THEN ToInt16(SupplyMilli(vcc))
                                            ELSE ToInt16(SupplyPcnt(vcc)))
                     ELSE ToInt16(vcc)]
     IN tinytx' = Assign(variant, pc, tinytx, new)
  /\ written' = written \cup StoreFields(variant, pc)
  /\ vcc' = 0 /\ samples' = <<>>
  /\ pc' = "rf_entry"
  /\ UNCHANGED <<sensorValue, adcI, rawIn, powerVars, sensorVars, rfVars, irqVars,
                 seqVars, fixedVars>>

(***************************************************************************)
(* rfwrite and waitForAck                                                  *)
(***************************************************************************)
\* rfwrite() is called
RfEntry ==
  /\ pc = "rf_entry"
  /\ i' = 0 /\ acked' = 0
  /\ attempts' = 0 /\ ackAt' = 0 /\ backoffs' = 0
  /\ sendState' = "running" /\ sentRec' = NoRec /\ txSame' = TRUE
  /\ pc' = IF UseAck(variant) THEN "rf_loop" ELSE "rf_wake"
  /\ UNCHANGED <<rxFrame, powerVars, sensorVars, adcVars, recVars, irqVars,
                 seqVars, fixedVars>>

\* rfwrite returns with the given outcome; in the door sketch handleInterrupt
\* returns with it, and the caller's sleep loop starts with i = 0
Return(outcome) ==
  /\ pc' = SendReturn(site, acked)
  /\ sendState' = outcome
  /\ i' = 0 /\ acked' = 0
  /\ sleepI' = 0
  /\ evtCycle' = IF evtCycle = 1 THEN 2 ELSE evtCycle
  /\ UNCHANGED <<site, gotPCI, held, evtChunk, edges, consumed, cyc, attempts,
                 ackAt, backoffs, sentRec, txSame, sensorVars, adcVars, recVars,
                 fixedVars>>

\* for (byte i = 0; i <= RETRY_LIMIT; ++i): the test
RfLoop ==
  /\ pc = "rf_loop"
  /\ IF RfLoopCond(i)
       THEN /\ pc' = "rf_wake"
            /\ UNCHANGED <<rfVars, irqVars, seqVars, sensorVars, adcVars, recVars,
                           fixedVars>>
       ELSE Return("dropped") /\ rxFrame' = rxFrame
  /\ UNCHANGED powerVars

\* rf12_sleep(-1)
RfWake ==
  /\ pc = "rf_wake"
  /\ radio' = "awake"
  /\ pc' = "rf_cansend"
  /\ UNCHANGED <<rail, pinHigh, adc, sensorVars, adcVars, rfVars, recVars,
                 irqVars, seqVars, fixedVars>>

\* while (!rf12_canSend()) rf12_recvDone();  -- one evaluation of the test; when
\* the radio is not ready rf12_recvDone may drain a received frame
RfCanSend ==
  /\ pc = "rf_cansend"
  /\ \E ready \in BOOLEAN :
       IF ready
         THEN /\ pc' = "rf_send"
              /\ rxFrame' = rxFrame
         ELSE /\ pc' = "rf_cansend"
              /\ \E f \in RxFrames(variant) \cup {rxFrame} : rxFrame' = f
  /\ UNCHANGED <<i, acked, attempts, ackAt, backoffs, sendState, sentRec, txSame,
                 powerVars, sensorVars, adcVars, recVars, irqVars, seqVars, fixedVars>>

\* rf12_sendStart(RF12_HDR_ACK or 0, &tinytx, sizeof tinytx)
RfSendStart ==
  /\ pc = "rf_send"
  /\ attempts' = attempts + 1
  /\ sentRec' = IF attempts = 0 THEN Frame(variant, tinytx) ELSE sentRec
  /\ txSame' = (txSame /\ Frame(variant, tinytx) = sentRec')
  /\ rxFrame' = TxFrame(variant)
  /\ pc' = "rf_sendwait"
  /\ UNCHANGED <<i, acked, ackAt, backoffs, sendState, powerVars, sensorVars,
                 adcVars, recVars, irqVars, seqVars, fixedVars>>

\* rf12_sendWait(2)
RfSendWait ==
  /\ pc = "rf_sendwait"
  /\ pc' = IF UseAck(variant) THEN "rf_ack" ELSE "rf_sleep"
  /\ UNCHANGED <<powerVars, sensorVars, adcVars, rfVars, recVars, irqVars,
                 seqVars, fixedVars>>

\* waitForAck: one pass of  while (!ackTimer.poll(ACK_TIME)) with the timer not
\* yet expired: rf12_recvDone() delivers a frame f or nothing
AckPoll ==
  /\ pc = "rf_ack"
  /\ \E f \in RxFrames(variant) \cup {NoFrame} :
       /\ rxFrame' = IF f = NoFrame THEN rxFrame ELSE f
       /\ ackAt' = IF f = ExpectedAck(variant) /\ ackAt = 0 THEN attempts ELSE ackAt
       /\ IF IsAck(variant, f)
            THEN acked' = 1 /\ pc' = "rf_sleep"
            ELSE acked' = acked /\ pc' = "rf_ack"
  /\ UNCHANGED <<i, attempts, backoffs, sendState, sentRec, txSame, powerVars,
                 sensorVars, adcVars, recVars, irqVars, seqVars, fixedVars>>

\* waitForAck: ackTimer.poll(ACK_TIME) reports the window over; return 0
AckTimeout ==
  /\ pc = "rf_ack"
  /\ acked' = 0
  /\ pc' = "rf_sleep"
  /\ UNCHANGED <<i, rxFrame, attempts, ackAt, backoffs, sendState, sentRec, txSame,
                 powerVars, sensorVars, adcVars, recVars, irqVars, seqVars, fixedVars>>

\* rf12_sleep(0);  without USE_ACK: then return
RfSleep ==
  /\ pc = "rf_sleep"
  /\ radio' = RfSleepState(acked)
  /\ rxFrame' = NoFrame
  /\ IF UseAck(variant)
       THEN /\ pc' = "rf_chk"
            /\ UNCHANGED <<i, acked, attempts, ackAt, backoffs, sendState, sentRec,
                           txSame, irqVars, seqVars, sensorVars, adcVars, recVars,
                           fixedVars>>
       ELSE Return("sent")
  /\ UNCHANGED <<rail, pinHigh, adc>>

\* if (acked) { return; }
RfChk ==
  /\ pc = "rf_chk"
  /\ IF AckedReturn(acked)
       THEN Return("delivered") /\ rxFrame' = rxFrame
       ELSE /\ pc' = "rf_backoff"
            /\ UNCHANGED <<rfVars, irqVars, seqVars, sensorVars, adcVars, recVars,
                           fixedVars>>
  /\ UNCHANGED powerVars

\* Sleepy::loseSomeTime(RETRY_PERIOD * 1000) / (RETRY_PERIOD * 500); ++i
RfBackoff ==
  /\ pc = "rf_backoff"
  /\ backoffs' = backoffs + 1
  /\ i' = (i + 1) % 256
  /\ pc' = "rf_loop"
  /\ UNCHANGED <<acked, rxFrame, attempts, ackAt, sendState, sentRec, txSame,
                 powerVars, sensorVars, adcVars, recVars, irqVars, seqVars, fixedVars>>

(***************************************************************************)
(* Sequencer: the duty-cycle sleep and the loop() of the door sketch.      *)
(***************************************************************************)
\* a new acquire+transmit cycle begins: loop() of basic and green starts over,
\* the door sketch calls handleInterrupt()
BeginCycleBody(s) ==
  /\ pc' = "rail_on"
  /\ site' = s
  /\ attempts' = 0 /\ ackAt' = 0 /\ backoffs' = 0
  /\ sentRec' = NoRec /\ txSame' = TRUE
  /\ written' = {}
  /\ evtChunk' = 0 /\ evtCycle' = 0
  /\ cyc' = IF variant = "door" THEN Min(cyc + 1, 2) ELSE cyc
  /\ UNCHANGED <<gotPCI, edges, consumed, sendState, tinytx, i, acked, rxFrame,
                 sleepI, powerVars, sensorVars, adcVars, fixedVars>>

BeginCycle(s) == BeginCycleBody(s) /\ held' = held

\* the values a read of gotPCI by the main program may yield
ReadFlag == {gotPCI, held}

\* the test of  for (int i=0; i<5 && !gotPCI; i++)  (door), i<5 (basic), i<30 (green);
\* gotPCI is read only when i < 5 holds
SleepTest ==
  /\ pc = "slp_test"
  /\ \E g \in ReadFlag :
       /\ held' = IF variant = "door" /\ sleepI < SleepChunks(variant) THEN g ELSE held
       /\ IF SleepCond(variant, sleepI, g)
            THEN /\ pc' = "slp_chunk"
                 /\ UNCHANGED <<site, sleepI, gotPCI, evtChunk, evtCycle, edges,
                                consumed, cyc, powerVars, sensorVars, adcVars,
                                rfVars, recVars, fixedVars>>
            ELSE CASE site = "A" ->        \* line 173 follows the if-block
                        /\ pc' = "clrB"
                        /\ UNCHANGED <<site, sleepI, gotPCI, evtChunk, evtCycle,
                                       edges, consumed, cyc, powerVars, sensorVars,
                                       adcVars, rfVars, recVars, fixedVars>>
                   [] site = "B" ->        \* loop() returns and is called again
                        /\ pc' = "loop_if"
                        /\ UNCHANGED <<site, sleepI, gotPCI, evtChunk, evtCycle,
                                       edges, consumed, cyc, powerVars, sensorVars,
                                       adcVars, rfVars, recVars, fixedVars>>
                   [] OTHER -> BeginCycleBody("loop")

\* Sleepy::loseSomeTime(MINUTE) returns; i++
SleepChunk ==
  /\ pc = "slp_chunk"
  /\ sleepI' = sleepI + 1
  /\ evtChunk' = IF evtChunk = 1 THEN 2 ELSE evtChunk
  /\ pc' = "slp_test"
  /\ UNCHANGED <<site, gotPCI, held, evtCycle, edges, consumed, cyc, powerVars,
                 sensorVars, adcVars, rfVars, recVars, fixedVars>>

\* door setup(): sei() after handleInterrupt(); setup returns and loop() is called
SetupSei ==
  /\ pc = "setup_sei"
  /\ pc' = "loop_if"
  /\ UNCHANGED <<powerVars, sensorVars, adcVars, rfVars, recVars, irqVars,
                 seqVars, fixedVars>>

\* door loop(): if (gotPCI)
LoopIf ==
  /\ pc = "loop_if"
  /\ \E g \in ReadFlag :
       /\ held' = g
       /\ pc' = IF LoopIfCond(g) THEN "clrA" ELSE "clrB"
  /\ UNCHANGED <<gotPCI, evtChunk, evtCycle, edges, consumed, cyc, powerVars,
                 sensorVars, adcVars, rfVars, recVars, seqVars, fixedVars>>

\* door loop(): gotPCI = false  (line 167 at clrA, line 173 at clrB)
ClearFlag ==
  /\ pc \in {"clrA", "clrB"}
  /\ gotPCI' = 0 /\ held' = 0
  /\ consumed' = edges
  /\ edges' = 0
  /\ cyc' = 0
  /\ pc' = IF pc = "clrA" THEN "callA" ELSE "callB"
  /\ UNCHANGED <<evtChunk, evtCycle, powerVars, sensorVars, adcVars, rfVars,
                 recVars, seqVars, fixedVars>>

\* door loop(): handleInterrupt()  (line 168 at callA, line 175 at callB)
CallHandle ==
  /\ pc \in {"callA", "callB"}
  /\ BeginCycle(IF pc = "callA" THEN "A" ELSE "B")

(***************************************************************************)
(* ISR(PCINT0_vect): runs between any two statements of the door sketch.   *)
(***************************************************************************)
ISR ==
  /\ variant = "door"
  /\ gotPCI' = ISRSet(gotPCI)
  /\ edges' = Min(edges + 1, MaxEdges)
  /\ evtChunk' = IF pc = "slp_chunk" THEN 1 ELSE evtChunk
  /\ evtCycle' = IF pc \in CyclePcs THEN 1 ELSE evtCycle
  /\ pc' = ISRResume(pc)
  /\ UNCHANGED <<held, consumed, cyc, powerVars, sensorVars, adcVars, rfVars,
                 recVars, seqVars, fixedVars>>

Acquire == RailOn \/ Warmup \/ Poll \/ PollWait \/ Store \/ DoorRead \/ RailOff \/ PinsLow
readVcc == AdcOn \/ AdcConvert \/ AdcSample \/ AdcOff \/ AdcCalc \/ StoreV
rfwrite == RfEntry \/ RfLoop \/ RfWake \/ RfCanSend \/ RfSendStart \/ RfSendWait
             \/ AckPoll \/ AckTimeout \/ RfSleep \/ RfChk \/ RfBackoff
Sequencer == SleepTest \/ SleepChunk \/ SetupSei \/ LoopIf \/ ClearFlag \/ CallHandle

\* the steps of the main program
Main == Acquire \/ readVcc \/ rfwrite \/ Sequencer

Next == Main \/ ISR

Spec == Init /\ [][Next]_vars

\* readVcc of basic and door over every raw reading the claim about it covers:
\* the first cycle of a sketch up to the call of rfwrite, the conversion
\* reading any value of RawRange.
RawRange == 1 .. 1023

VccInit == Init /\ variant # "green" /\ ~dead

VccNext == Acquire \/ AdcOn \/ AdcConvertFrom(RawRange) \/ AdcOff \/ StoreV

VccSpec == VccInit /\ [][VccNext]_vars

\* readVcc of green over the sample values of AvgSamples: the first cycle of
\* the greenhouse sketch up to the call of rfwrite.
AvgSamples == {0, 1, 512, 1023}

AvgInit == Init /\ variant = "green" /\ ~dead

AvgNext == RailOn \/ Warmup \/ Poll \/ PollWait \/ Store \/ RailOff \/ PinsLow
             \/ AdcOn \/ AdcSampleFrom(AvgSamples) \/ AdcOff \/ AdcCalc \/ StoreV

AvgSpec == AvgInit /\ [][AvgNext]_vars

\* rf12_canSend() reports the transmit path ready
RfReady == RfCanSend /\ pc' = "rf_send"

\* The main program always takes its next step (the processor runs and every
\* Sleepy::loseSomeTime returns), the ack window of waitForAck always ends
\* (ackTimer runs on the millisecond clock), and the transmit path of the radio
\* becomes ready.  Nothing is assumed of the sensor driver or of the contact.
FairSpec == Spec /\ WF_vars(Main) /\ WF_vars(AckTimeout) /\ WF_vars(RfReady)

(***************************************************************************)
(* Properties                                                              *)
(***************************************************************************)
RfPcs == {"rf_loop", "rf_wake", "rf_cansend", "rf_send", "rf_sendwait",
          "rf_ack", "rf_sleep", "rf_chk", "rf_backoff"}
AwakePcs == {"rf_cansend", "rf_send", "rf_sendwait", "rf_ack", "rf_sleep"}
SeqPcs == {"slp_test", "slp_chunk", "setup_sei", "loop_if", "clrA", "clrB",
           "callA", "callB"}
\* rfwrite has returned and no new cycle has begun
SendOver == sendState \in {"delivered", "dropped", "sent"} /\ pc \in SeqPcs

\* C1 -- Bounded retry.  With acknowledgements enabled, a call of rfwrite in
\* which no valid acknowledgement arrived in any ack window has made exactly
\* RETRY_LIMIT + 1 transmissions when it returns, it returns as not delivered,
\* and at no point has it made more than RETRY_LIMIT + 1 transmissions.
C1_BoundedRetry ==
  UseAck(variant) =>
    /\ attempts <= RETRY_LIMIT + 1
    /\ (SendOver /\ ackAt = 0) =>
         (sendState = "dropped" /\ attempts = RETRY_LIMIT + 1)
    /\ (SendOver /\ sendState = "dropped") => ackAt = 0

C1_Witness ==
  SendOver /\ sendState = "dropped" /\ ackAt = 0 /\ attempts = RETRY_LIMIT + 1

\* C2 -- Early success.  With acknowledgements enabled, if the first valid
\* acknowledgement arrives in the ack window of attempt k (1 <= k <=
\* RETRY_LIMIT + 1), no transmission follows attempt k, and the call returns
\* delivered after exactly k transmissions.
C2_EarlySuccess ==
  (UseAck(variant) /\ ackAt # 0) =>
    /\ ackAt \in 1 .. RETRY_LIMIT + 1
    /\ attempts = ackAt
    /\ pc \in {"rf_sleep", "rf_chk"} \cup SeqPcs
    /\ SendOver => sendState = "delivered"

C2_Witness ==
  SendOver /\ sendState = "delivered" /\ ackAt = 3 /\ attempts = 3

\* C3 -- Radio power restoration.  In every sketch the radio is awake only
\* between rf12_sleep(-1) and rf12_sleep(0) of one transmission attempt: it is
\* asleep during every retry backoff, at the test of the acknowledgement, and
\* whenever rfwrite is not running.
C3_RadioAsleep == radio = "awake" => pc \in AwakePcs

C3_Witness ==
  pc = "rf_backoff" /\ radio = "sleep" /\ attempts = 2 /\ acked = 0

C6_Counted ==
  variant = "door" =>
    /\ gotPCI \in {0, 1}
    /\ cyc <= 1
    /\ pc \in (CyclePcs \cup SeqPcs) \ {"callA", "callB"} => cyc = 1
    /\ pc \in {"callA", "callB"} => cyc = 0

C6_Coalescing ==
  /\ []C6_Counted
  /\ [][(ISR /\ gotPCI # 0) => UNCHANGED progVars]_vars

C6_Witness ==
  consumed >= 2 /\ cyc = 1 /\ pc = "rail_on"

\* C7 -- Sensor retry loop.  The acquisition loop of a sensor is left only
\* after a poll that reported DHTLIB_OK: then the driver holds a valid reading,
\* exactly (number of failed polls) + 1 polls of that sensor were made, and that
\* reading is what the following statements store in the record.  With a driver
\* that never reports success the first loop is never left.
C7_SensorRetry ==
  /\ pc \in {"store1", "store2"} =>
       (~dead /\ DHT \in Readings /\ fails <= MaxFails /\ polls = fails + 1)
  /\ dead => pc \in {"rail_on", "warmup", "poll1", "wait1"}
  /\ (pc = "rail_off" /\ variant # "door") =>
       (tinytx["temp"] = Scale100(DHT[1]) /\ tinytx["humidity"] = Scale100(DHT[2]))
  /\ (pc = "poll2" /\ polls = 0) =>
       (tinytx["temp"] = Scale100(DHT[1]) /\ tinytx["humidity"] = Scale100(DHT[2]))
  /\ pc = "door_read" =>
       (tinytx["outsideTemp"] = Scale100(DHT[1])
          /\ tinytx["outsideHum"] = Scale100(DHT[2]))

C7_Witness ==
  pc = "store2" /\ fails = 2 /\ polls = 3 /\ DHT = <<-53, 999>>
    /\ tinytx["temp"] = 2150 /\ tinytx["humidity"] = 4800

\* C8 -- The system never halts: the sequencer reaches the test of the
\* duty-cycle sleep loop again and again, whatever the sensor driver and the
\* radio do.
C8_NeverHalts == []<>(pc \in {"slp_test", "slp_chunk"})

\* C9 -- Record completeness.  While rfwrite runs, every field of the sketch's
\* record has been assigned since the cycle began; from the first transmission
\* on the record equals the payload of that first transmission, and every
\* transmission of the send carried that same payload.
C9_RecordComplete ==
  /\ pc \in ({"rf_entry"} \cup RfPcs) => written = Payload(variant)
  /\ (pc \in RfPcs /\ attempts >= 1) =>
       (txSame /\ sentRec = Frame(variant, tinytx))

C9_Witness ==
  variant = "door" /\ pc = "rf_sendwait" /\ attempts = 3 /\ txSame
    /\ sentRec = Frame(variant, tinytx) /\ tinytx["door"] = 1

\* C10 -- Silent drop on exhaustion.  When rfwrite returns, control goes to the
\* statement after the call with the sleep counter at 0 and the record and the
\* flag untouched, the same for an undelivered send as for a delivered one.
\* After an undelivered send the sequencer is in its sleep / loop control or in
\* the acquisition of the next cycle, never in rfwrite again before a new
\* record has been acquired; the next send starts from a record all of whose
\* fields were assigned in its own cycle.
C10_AfterDrop ==
  sendState = "dropped" =>
    /\ pc \in SeqPcs \cup (CyclePcs \ RfPcs)
    /\ pc = "rf_entry" => (written = Payload(variant) /\ attempts = 0)
    /\ pc \in SeqPcs => attempts = RETRY_LIMIT + 1

C10_ReturnStep ==
  (sendState = "running" /\ sendState' \in {"delivered", "dropped"}) =>
    /\ pc' = (IF site = "setup" THEN "setup_sei" ELSE "slp_test")
    /\ sleepI' = 0
    /\ tinytx' = tinytx /\ gotPCI' = gotPCI /\ site' = site
    /\ UNCHANGED powerVars

C10_SilentDrop == []C10_AfterDrop /\ [][C10_ReturnStep]_vars

C10_Witness ==
  sendState = "dropped" /\ pc = "rf_entry" /\ written = Payload(variant)
    /\ variant = "basic"

\* C11 -- Acknowledgements disabled.  In the greenhouse sketch (built without
\* USE_ACK) a call of rfwrite never reaches the retry loop, the ack window,
\* the test of the acknowledgement or the backoff wait; it makes at most one
\* transmission, whose header carries no acknowledgement request, and when it
\* has returned it has made exactly one transmission and the radio is asleep.
C11_NoAck ==
  variant = "green" =>
    /\ pc \notin {"rf_loop", "rf_ack", "rf_chk", "rf_backoff"}
    /\ attempts <= 1 /\ backoffs = 0 /\ ackAt = 0
    /\ sendState \notin {"delivered", "dropped"}
    /\ pc = "rf_sendwait" =>
         (rxFrame[2] = myNodeID(variant) /\ (rxFrame[2] \div RF12_HDR_ACK) % 2 = 0)
    /\ SendOver => (sendState = "sent" /\ attempts = 1 /\ radio = "sleep")

C11_Witness ==
  variant = "green" /\ SendOver /\ sendState = "sent" /\ attempts = 1
    /\ radio = "sleep" /\ pc = "slp_test" /\ sleepI = 0

\* C12 -- Voltage back-calculation.  In the basic and the door sketch, for
\* every raw reading R in 1..1023, the value of tinytx.supplyV with which
\* rfwrite is called equals floor(1126400 / R).
C12_VccExact ==
  (variant # "green" /\ pc = "rf_entry" /\ rawIn \in RawRange) =>
    tinytx["supplyV"] = 1126400 \div rawIn

RECURSIVE SumSeq(_)
SumSeq(q) == IF q = <<>> THEN 0 ELSE Head(q) + SumSeq(Tail(q))

\* C13 -- Divider averaging, as claimed.  The averaged raw value that readVcc
\* of the greenhouse sketch scales to a voltage is the mean of the five
\* samples rounded to the nearest integer.
C13_AvgRounded ==
  (variant = "green" /\ pc = "store_v") =>
    /\ Len(samples) = 5
    /\ vcc = (2 * SumSeq(samples) + 5) \div 10

\* C13 -- Divider averaging, as the code computes it.  The averaged raw value
\* is the sum of the five samples divided by 5 with the remainder discarded,
\* i.e. the mean rounded down.
C13_AvgTruncated ==
  (variant = "green" /\ pc = "store_v") =>
    /\ Len(samples) = 5
    /\ vcc = SumSeq(samples) \div 5

C13_Witness ==
  variant = "green" /\ pc = "store_v" /\ samples = <<1, 1, 1, 0, 1>> /\ vcc = 0

\* the statements from the supply measurement to the end of rfwrite
AfterAcquirePcs == {"adc_on", "adc_conv", "adc_sample", "adc_off", "adc_calc",
                    "store_v", "rf_entry"} \cup RfPcs

\* C14 -- Sensor left in the low-power-safe state.  In every sketch, during
\* the supply measurement, the transmission and the duty-cycle sleep the sensor
\* rail is off and no sensor data pin is still in the high state in which the
\* driver left it: every pin that was read has been written low.
C14_SensorOff ==
  pc \in AfterAcquirePcs \cup {"slp_test", "slp_chunk"} =>
    (~rail /\ pinHigh = {})

\* C15 -- Backoff only when attempts remain.  With acknowledgements enabled
\* the retry backoff wait is entered only when another attempt will follow,
\* i.e. after at most RETRY_LIMIT attempts, and a send that returns as not
\* delivered has performed exactly RETRY_LIMIT backoff waits.
C15_BackoffCount ==
  UseAck(variant) =>
    /\ pc = "rf_backoff" => attempts <= RETRY_LIMIT
    /\ backoffs <= RETRY_LIMIT
    /\ (SendOver /\ sendState = "dropped") => backoffs = RETRY_LIMIT

\* C16 -- Acknowledgement acceptance.  With acknowledgements enabled, acked
\* is set only by a pass of waitForAck that received, in the ack window of the
\* current attempt, a frame with CRC 0 and header DST | CTL | myNodeID; a send
\* returns delivered only so.  A frame received in the window that fails one
\* of the two tests leaves acked clear and the window open, and a frame drained
\* while rfwrite waits for rf12_canSend leaves acked clear and is followed by
\* the transmission of the attempt.
C16_AckedState ==
  UseAck(variant) =>
    /\ acked # 0 => (pc \in {"rf_sleep", "rf_chk"} /\ attempts >= 1 /\ ackAt = attempts)
    /\ (SendOver /\ sendState = "delivered") => (attempts >= 1 /\ ackAt = attempts)

C16_AckStep ==
  /\ (acked = 0 /\ acked' # 0) =>
       /\ pc = "rf_ack"
       /\ rxFrame' = <<0, RF12_HDR_DST + RF12_HDR_CTL + myNodeID(variant)>>
  /\ (pc = "rf_ack" /\ rxFrame' # rxFrame
         /\ rxFrame' # <<0, RF12_HDR_DST + RF12_HDR_CTL + myNodeID(variant)>>) =>
       (acked' = 0 /\ pc' = "rf_ack")
  /\ pc = "rf_cansend" =>
       (acked' = 0 /\ ackAt' = 0 /\ pc' \in {"rf_cansend", "rf_send"})

C16_AckAccept == []C16_AckedState /\ [][C16_AckStep]_vars

C16_Witness ==
  /\ UseAck(variant) /\ pc = "rf_ack" /\ acked = 0 /\ attempts = 2 /\ ackAt = 0
  /\ rxFrame = <<1, RF12_HDR_DST + RF12_HDR_CTL + myNodeID(variant)>>

\* C17 -- Flag clearing discipline, as claimed (door sketch).  The sequencer
\* clears gotPCI only when it has just observed the flag set: at both clearing
\* statements the value it last read is true, so no edge is erased unobserved.
C17_ClearObserved ==
  pc \in {"clrA", "clrB"} => (held # 0 /\ gotPCI # 0)

\* C17 -- Flag clearing discipline, as the code has it (door sketch).  Only
\* the ISR sets gotPCI and only the two clearing statements of loop() clear
\* it; each clear is followed directly by the call of handleInterrupt, before
\* any sleep chunk or test of the flag.  The clear at line 167 is reached only
\* after the flag was observed set.  The clear at line 173 is unconditional:
\* it is reached from the test at line 166 that found the flag clear and from
\* the end of the sleep loop at line 169, whatever the flag was last seen as.
C17_ClearState ==
  variant = "door" =>
    /\ pc = "clrA" => (held # 0 /\ gotPCI # 0)
    /\ held # 0 => gotPCI # 0
    /\ pc \in {"callA", "callB"} => held = 0

C17_FlagStep ==
  /\ (gotPCI = 0 /\ gotPCI' # 0) => (pc' = pc /\ UNCHANGED <<held, tinytx, site>>)
  /\ (gotPCI # 0 /\ gotPCI' = 0) =>
       \/ pc = "clrA" /\ pc' = "callA"
       \/ pc = "clrB" /\ pc' = "callB"
  /\ (pc \in {"clrA", "clrB"} /\ pc' # pc) =>
       (gotPCI' = 0 /\ pc' = (IF pc = "clrA" THEN "callA" ELSE "callB"))
  /\ (pc \in {"callA", "callB"} /\ pc' # pc) => pc' = "rail_on"

C17_ClearThenHandle == []C17_ClearState /\ [][C17_FlagStep]_vars

C17_Witness ==
  variant = "door" /\ pc = "callB" /\ site = "B" /\ sleepI = 5
    /\ consumed >= 1 /\ gotPCI = 0 /\ sendState = "delivered"

\* the program state of the door sketch apart from the flag and the statement
cycleVars == <<site, held, rail, pinHigh, adc, radio, DHT, tinytx, sensorValue,
               adcI, vcc, i, acked, rxFrame, sleepI>>

\* C18 -- No cancellation (door sketch).  A step that sets the flag while a
\* cycle runs leaves the statement at which the cycle stands and every other
\* variable of the program unchanged.  No statement of the cycle reads or
\* writes the flag, and control leaves the cycle only by the return of rfwrite.  While a
\* cycle in which an edge was raised runs, the flag stays set; when it has
\* returned, every field of the record was assigned and the send has ended
\* delivered or dropped, as in a cycle without an edge.
C18_EdgeStep ==
  /\ (pc \in CyclePcs /\ evtCycle' = 1 /\ (edges' # edges \/ gotPCI' # gotPCI)) =>
       (pc' = pc /\ UNCHANGED cycleVars)
  /\ (variant = "door" /\ pc \in CyclePcs /\ pc' # pc) =>
       /\ gotPCI' = gotPCI /\ held' = held
       /\ pc' \in CyclePcs \/ (pc \in {"rf_loop", "rf_chk"} /\ pc' \in SeqPcs)

C18_EdgeState ==
  /\ evtCycle = 1 => (pc \in CyclePcs /\ gotPCI # 0)
  /\ evtCycle = 2 =>
       /\ sendState \in {"delivered", "dropped"}
       /\ pc \in SeqPcs => (written = Payload(variant) /\ attempts >= 1)

C18_NoCancel == []C18_EdgeState /\ [][C18_EdgeStep]_vars

C18_Witness ==
  variant = "door" /\ evtCycle = 2 /\ pc = "slp_test" /\ sendState = "dropped"
    /\ attempts = RETRY_LIMIT + 1 /\ written = Payload(variant) /\ gotPCI = 1

\* the power-managed subsystems that are out of their low-power state
PoweredOn == (IF rail THEN {"rail"} ELSE {}) \cup (IF adc THEN {"adc"} ELSE {})
               \cup (IF radio = "awake" THEN {"radio"} ELSE {})

\* C19 -- Exclusive ownership of the power-managed subsystems.  In every
\* sketch at most one of sensor rail on, ADC enabled, radio awake holds at any
\* time; the ADC is enabled only between the enabling and the disabling
\* statement of readVcc; and none of the three is on while the sequencer is in
\* its duty-cycle sleep loop, so every sleep chunk begins with all three off.
C19_Exclusive ==
  /\ Cardinality(PoweredOn) <= 1
  /\ adc => pc \in {"adc_conv", "adc_sample", "adc_off"}
  /\ rail => pc \in {"warmup", "poll1", "wait1", "store1", "poll2", "wait2",
                      "store2", "door_read", "rail_off"}
  /\ pc \in SeqPcs => PoweredOn = {}

C19_Witness ==
  pc = "slp_chunk" /\ sleepI = 0 /\ PoweredOn = {} /\ sendState = "dropped"
    /\ variant = "door" /\ evtCycle = 0

\* C20 -- Full interval between measurements.  When a cycle begins that is
\* not the first after power-up, and no edge was raised since the flag was
\* last cleared, the sleep loop that ran since the preceding cycle returned
\* has slept all its chunks: 5 in the basic and the door sketch, 30 in the
\* greenhouse sketch.
C20_FullInterval ==
  (pc = "rail_on" /\ sendState # "idle" /\ edges = 0 /\ consumed = 0) =>
    sleepI = SleepChunks(variant)

====
